---------------------------- MODULE Spec2Model ----------------------------
(***************************************************************************)
(* A model of midi2floppy.py: the short-name generator, the rename pass,   *)
(* the three-ceiling bucketer and the recursive directory walk with its    *)
(* container counter and manifest.                                         *)
(*                                                                         *)
(* A character is a one-character string, or the name of a code point      *)
(* ("U+4E2D"); a file or directory name is a sequence of characters.       *)
(***************************************************************************)
EXTENDS Integers, Sequences, FiniteSets, TLC

VARIABLES
    filename,   \* get_shortname: the argument
    short,      \* get_shortname: the returned value (<<>> before the call)
    rdir,       \* rename_files: the directory, a sequence of entries in iterdir order
    rfiles,     \* rename_files: `files`, the sorted snapshot of eligible names
    ridx,       \* rename_files: `idx`, the next position of the loop
    rmade,      \* rename_files: the new_name computed at each position so far
    rpc,        \* rename_files: "list" | "loop" | "done"
    blisting,   \* bucket_files: the directory as the call found it (iterdir order)
    bdir,       \* bucket_files: the directory now, without the files moved out
    bfiles,     \* bucket_files: `files`, the sorted snapshot of eligible names
    bpos,       \* bucket_files: how many of `files` the loop has handled
    bucket_idx,     \* bucket_files: the number of the open bucket
    used_clusters,  \* bucket_files: running totals of the open bucket
    used_bytes,
    file_count,
    buckets,    \* bucket_files: per bucket, in production order, the entries moved in
    bpc,        \* bucket_files: "list" | "loop" | "done"
    rootName,   \* the walk: root.name
    parentName, \* the walk: root.parent.name
    fs,         \* the walk: the tree under root, path |-> the file entries of that directory
    images,     \* the walk: the container files of root/Images, name |-> what was built
    manifest,   \* the walk: root/Images/directory_map.txt: its lines, and the run that wrote it
    run,        \* the walk: the number of the current (or last) run of main
    wpc,        \* the walk: "idle" | "visit" | "build" | "children" | "write" | "failed"
    stack,      \* the walk: the frames of process_directory, innermost last
    pending,    \* process_directory: the buckets of bucket_files not built yet
    counter,    \* main: counter[0]
    mapping,    \* main: the defaultdict, as its items in insertion order
    built,      \* history: the buckets built in this run, in order
    visited,    \* history: the directories processed (not skipped) in this run, in order
    stats,      \* history: the renames, moves, replacements and buckets of this run
    made,       \* history: the bucket subdirectories bucket_files has named, in any run
    tree,       \* history: "fresh" (never run on) | "left" (as a completed run left it) | "dirty"
    startedOn,  \* history: the value of `tree` when this run started
    adds,       \* history: the files added from outside so far
    dirpath,    \* is_generated_dir: the argument, a path under root (<<>>: root)
    generated   \* is_generated_dir: <<the returned value>> (<<>> before the call)

shortVars  == <<filename, short>>
renameVars == <<rdir, rfiles, ridx, rmade, rpc>>
bucketVars == <<blisting, bdir, bfiles, bpos, bucket_idx, used_clusters, used_bytes,
                file_count, buckets, bpc>>
walkVars   == <<rootName, parentName, fs, images, manifest, run, wpc, stack, pending,
                counter, mapping, built, visited, stats, made, tree, startedOn, adds>>
classVars  == <<dirpath, generated>>
vars == <<shortVars, renameVars, bucketVars, walkVars, classVars>>

---------------------------------------------------------------------------
(* Characters and Python's str methods on them.                            *)

DigitChars == <<"0", "1", "2", "3", "4", "5", "6", "7", "8", "9">>
UpperChars == <<"A", "B", "C", "D", "E", "F", "G", "H", "I", "J", "K", "L", "M",
                "N", "O", "P", "Q", "R", "S", "T", "U", "V", "W", "X", "Y", "Z">>
LowerChars == <<"a", "b", "c", "d", "e", "f", "g", "h", "i", "j", "k", "l", "m",
                "n", "o", "p", "q", "r", "s", "t", "u", "v", "w", "x", "y", "z">>

Range(s) == {s[i] : i \in 1..Len(s)}

IndexOf(s, c) == CHOOSE i \in 1..Len(s) : s[i] = c

\* ord(c): the code point, which is what Python compares strings by.
Ord(c) ==
    CASE c \in Range(DigitChars) -> 47 + IndexOf(DigitChars, c)
      [] c \in Range(UpperChars) -> 64 + IndexOf(UpperChars, c)
      [] c \in Range(LowerChars) -> 96 + IndexOf(LowerChars, c)
      [] c = " " -> 32
      [] c = "-" -> 45
      [] c = "." -> 46
      [] c = "_" -> 95
      [] c = "U+00B2" -> 178      \* SUPERSCRIPT TWO
      [] c = "U+00DF" -> 223      \* LATIN SMALL LETTER SHARP S
      [] c = "U+4E2D" -> 20013    \* a CJK ideograph: a letter without case

\* str.isalpha() of one character: Unicode letters, cased or not.
IsAlpha(c) ==
    c \in Range(UpperChars) \cup Range(LowerChars) \cup {"U+00DF", "U+4E2D"}

\* str.isupper() of one character.
IsUpper(c) == c \in Range(UpperChars)

\* str.upper() of one character: a string, since U+00DF uppercases to "SS".
UpperOf(c) ==
    IF c \in Range(LowerChars) THEN <<UpperChars[IndexOf(LowerChars, c)]>>
    ELSE IF c = "U+00DF" THEN <<"S", "S">>
    ELSE <<c>>

\* str.lower() of one character.
LowerOf(c) ==
    IF c \in Range(UpperChars) THEN LowerChars[IndexOf(UpperChars, c)] ELSE c

\* str.lower()
lower(s) == [i \in 1..Len(s) |-> LowerOf(s[i])]

\* s[:n]
Take(s, n) == SubSeq(s, 1, IF n < Len(s) THEN n ELSE Len(s))

\* s[n:]
Drop(s, n) == SubSeq(s, n + 1, Len(s))

\* s.startswith(p)
StartsWith(s, p) == Len(p) <= Len(s) /\ SubSeq(s, 1, Len(p)) = p

---------------------------------------------------------------------------
(* pathlib: the suffix and the stem of a name (a final path component).    *)

\* The 1-based place of the last "." of the name, or 0: name.rfind('.') + 1.
LastDot(name) ==
    LET dots == {k \in 1..Len(name) : name[k] = "."}
    IN  IF dots = {} THEN 0 ELSE CHOOSE k \in dots : \A j \in dots : j <= k

\* PurePath.suffix: name[i:] when 0 < i < len(name) - 1, for i = name.rfind('.').
suffix(name) ==
    LET i == LastDot(name)
    IN  IF 1 < i /\ i < Len(name) THEN SubSeq(name, i, Len(name)) ELSE <<>>

\* PurePath.stem: the name without its suffix. Path(".") has the empty name.
stem(name) ==
    LET i == LastDot(name)
    IN  IF name = <<".">> THEN <<>>
        ELSE IF 1 < i /\ i < Len(name) THEN SubSeq(name, 1, i - 1) ELSE name

DotFil  == <<".", "f", "i", "l">>
DotMid  == <<".", "m", "i", "d">>
DotMidi == <<".", "m", "i", "d", "i">>
VALID_EXTS == {DotFil, DotMid, DotMidi}

\* p.suffix.lower() in VALID_EXTS
Eligible(name) == lower(suffix(name)) \in VALID_EXTS

---------------------------------------------------------------------------
(* get_shortname                                                           *)

FILLER == <<"D", "K", "S", "O", "N", "G">>
SHORT_LEN == 6

\* ''.join(c.upper() for c in s if c.isalpha())
RECURSIVE Letters(_)
Letters(s) ==
    IF s = <<>> THEN <<>>
    ELSE (IF IsAlpha(Head(s)) THEN UpperOf(Head(s)) ELSE <<>>) \o Letters(Tail(s))

get_shortname(name) ==
    LET letters == Letters(stem(name))
        padded  == IF Len(letters) < SHORT_LEN THEN letters \o FILLER ELSE letters
    IN  Take(padded, SHORT_LEN)

---------------------------------------------------------------------------
(* rename_files: the name given to the file at position idx.               *)

\* str(n) for n >= 0
RECURSIVE Decimal(_)
Decimal(n) ==
    IF n < 10 THEN <<DigitChars[n + 1]>>
    ELSE Decimal(n \div 10) \o <<DigitChars[(n % 10) + 1]>>

\* f"{idx:02d}": at least two digits, zero-padded on the left.
Fmt02d(idx) == IF idx < 10 THEN <<"0">> \o Decimal(idx) ELSE Decimal(idx)

MAX_2DIGIT_IDX == 99
SHORT_LEN_WIDE == 5

\* short, after `if idx > 99: short = short[:5]`
ShortAt(idx, name) ==
    IF idx > MAX_2DIGIT_IDX THEN Take(get_shortname(name), SHORT_LEN_WIDE)
    ELSE get_shortname(name)

\* ext
ExtOf(name) ==
    IF lower(suffix(name)) = DotFil THEN <<".", "F", "I", "L">>
    ELSE <<".", "M", "I", "D">>

NewName_NoIdx(idx, name) == ShortAt(idx, name) \o ExtOf(name)

\* new_name = f"{idx:02d}{short}{ext}"
NewName(idx, name) == Fmt02d(idx) \o ShortAt(idx, name) \o ExtOf(name)

---------------------------------------------------------------------------
(* sorted(..., key=lambda p: p.name.lower())                               *)

\* Python's < on strings, over their code points.
StrLess(a, b) ==
    \/ \E k \in 1..Len(a) :
          /\ k <= Len(b)
          /\ a[k] < b[k]
          /\ \A j \in 1..(k - 1) : a[j] = b[j]
    \/ Len(a) < Len(b) /\ \A j \in 1..Len(a) : a[j] = b[j]

\* The sort key of a name: the code points of name.lower().
SortKey(name) == [i \in 1..Len(name) |-> Ord(LowerOf(name[i]))]

\* One item of the list being sorted: the name, its key and its place in the
\* listing.
KeyedNames(names) ==
    [i \in 1..Len(names) |-> [name |-> names[i], key |-> SortKey(names[i]), pos |-> i]]

\* sorted() is stable: equal keys keep the order of the listing.
KeyedBefore(a, b) == StrLess(a.key, b.key) \/ (a.key = b.key /\ a.pos < b.pos)

SortedNames_Unsorted(names) == names

SortedNames(names) ==
    LET items == SortSeq(KeyedNames(names), KeyedBefore)
    IN  [k \in 1..Len(items) |-> items[k].name]

\* [p for p in directory.iterdir() if p.is_file() and p.suffix.lower() in VALID_EXTS],
\* for a directory given as the sequence of its file entries in iterdir order.
EligibleNames(dir) ==
    LET names == [i \in 1..Len(dir) |-> dir[i].name]
    IN  SelectSeq(names, Eligible)

\* path.rename(new_path) as POSIX rename(2) does it: a file already named
\* new replaces nothing of its own, it is replaced.
RenameEntry(dir, old, new) ==
    LET kept == SelectSeq(dir, LAMBDA e : e.name # new)
    IN  [i \in 1..Len(kept) |->
           IF kept[i].name = old THEN [kept[i] EXCEPT !.name = new] ELSE kept[i]]

\* Lines 72-80 for the file `path` at position idx of the sorted snapshot.
RenameOne(dir, path, idx) ==
    LET new_name == NewName(idx, path)
    IN  IF path # new_name THEN RenameEntry(dir, path, new_name) ELSE dir

\* The loop of lines 71-80 from position idx on.
RECURSIVE RenameFrom(_, _, _)
RenameFrom(dir, files, idx) ==
    IF idx >= Len(files) THEN dir
    ELSE RenameFrom(RenameOne(dir, files[idx + 1], idx), files, idx + 1)

\* rename_files: the directory's file entries after the pass.
rename_files(dir) == RenameFrom(dir, SortedNames(EligibleNames(dir)), 0)

---------------------------------------------------------------------------
(* Bucketing: the constants and one iteration of bucket_files' loop.       *)

SECTOR_SIZE == 512
TOTAL_SECTORS == 1440
SYSTEM_SECTORS == 1 + 3 + 3 + 14
DATA_SECTORS == TOTAL_SECTORS - SYSTEM_SECTORS
\* The cluster ceiling taken from the payload: its bytes in whole sectors.
MAX_CLUSTERS_Payload == (600 * 1024) \div SECTOR_SIZE

MAX_CLUSTERS == DATA_SECTORS
MAX_PAYLOAD_BYTES == 600 * 1024
MAX_FILES_PER_DISK == 60

\* (size + SECTOR_SIZE - 1) // SECTOR_SIZE or 1
rounded_clusters(size) ==
    LET c == (size + SECTOR_SIZE - 1) \div SECTOR_SIZE
    IN  IF c = 0 THEN 1 ELSE c

NeedsNewBucket_NoBytes(clusters_used, bytes_used, count, size) ==
    \/ clusters_used + rounded_clusters(size) > MAX_CLUSTERS
    \/ count + 1 > MAX_FILES_PER_DISK

NeedsNewBucket_OffByOne(clusters_used, bytes_used, count, size) ==
    \/ clusters_used + rounded_clusters(size) >= MAX_CLUSTERS
    \/ bytes_used + size >= MAX_PAYLOAD_BYTES
    \/ count + 1 >= MAX_FILES_PER_DISK

\* needs_new_bucket, lines 108-112
NeedsNewBucket(clusters_used, bytes_used, count, size) ==
    \/ clusters_used + rounded_clusters(size) > MAX_CLUSTERS
    \/ bytes_used + size > MAX_PAYLOAD_BYTES
    \/ count + 1 > MAX_FILES_PER_DISK

\* The loop's state before the first file, lines 97-102: bucket 1 is open
\* and empty.
FirstBucket ==
    [bucket_idx |-> 1, used_clusters |-> 0, used_bytes |-> 0, file_count |-> 0,
     buckets |-> << <<>> >>]

\* One iteration, lines 105-124, for the file entry f.
BucketAdd(st, f) ==
    LET size     == f.size
        clusters == rounded_clusters(size)
        fresh    == NeedsNewBucket(st.used_clusters, st.used_bytes, st.file_count, size)
        open     == IF fresh
                    THEN [bucket_idx |-> st.bucket_idx + 1, used_clusters |-> 0,
                          used_bytes |-> 0, file_count |-> 0,
                          buckets |-> Append(st.buckets, <<>>)]
                    ELSE st
    IN  [bucket_idx    |-> open.bucket_idx,
         used_clusters |-> open.used_clusters + clusters,
         used_bytes    |-> open.used_bytes + size,
         file_count    |-> open.file_count + 1,
         buckets       |-> [open.buckets EXCEPT ![open.bucket_idx] = Append(@, f)]]

\* The entry of the directory that has the given name.
EntryNamed(dir, name) == dir[CHOOSE i \in 1..Len(dir) : dir[i].name = name]

\* The directory without the entry of that name: shutil.move took it away.
WithoutEntry(dir, name) == SelectSeq(dir, LAMBDA e : e.name # name)

\* The buckets' file sequences, concatenated in production order.
RECURSIVE Concat(_)
Concat(bs) == IF bs = <<>> THEN <<>> ELSE Head(bs) \o Concat(Tail(bs))

\* The loop of lines 104-124 from position pos on.
RECURSIVE BucketFrom(_, _, _, _)
BucketFrom(st, dir, files, pos) ==
    IF pos >= Len(files) THEN st
    ELSE BucketFrom(BucketAdd(st, EntryNamed(dir, files[pos + 1])), dir, files, pos + 1)

\* bucket_files: per bucket in production order the entries moved into it
\* (<<>>: no eligible file, no bucket).
bucket_files(dir) ==
    LET files == SortedNames(EligibleNames(dir))
    IN  IF files = <<>> THEN <<>>
        ELSE BucketFrom(FirstBucket, dir, files, 0).buckets

---------------------------------------------------------------------------
(* The walk: paths, is_generated_dir, and what one directory's processing  *)
(* does to the tree. A path is the sequence of names from root down to a   *)
(* directory; root is <<>>.                                                *)

IMAGES_DIRNAME == <<"I", "m", "a", "g", "e", "s">>

\* dirpath.name
NameOf(path) == IF path = <<>> THEN rootName ELSE path[Len(path)]

\* dirpath.parent, for a directory under root
ParentOf(path) == SubSeq(path, 1, Len(path) - 1)

\* dirpath.parent.name
ParentNameOf(path) == IF path = <<>> THEN parentName ELSE NameOf(ParentOf(path))

\* str.isdigit() of one character: the decimal digits, and the characters
\* Unicode gives a digit value without their being decimal, such as U+00B2
\* SUPERSCRIPT TWO.
IsDigit(c) == c \in Range(DigitChars) \cup {"U+00B2"}

\* str.isdigit(): not empty, and every character a digit
IsDigitStr(s) == s # <<>> /\ \A i \in 1..Len(s) : IsDigit(s[i])

GeneratedName_Never(name, par) == FALSE

\* line 62: name.startswith(par.name + "_") and name[len(par.name)+1:].isdigit()
GeneratedName(name, par) ==
    StartsWith(name, par \o <<"_">>) /\ IsDigitStr(Drop(name, Len(par) + 1))

is_generated_dir_NoImages(path) == GeneratedName(NameOf(path), ParentNameOf(path))

is_generated_dir(path) ==
    \/ path = <<IMAGES_DIRNAME>>
    \/ GeneratedName(NameOf(path), ParentNameOf(path))

\* str(directory.relative_to(root)): "." for root, else the names joined by "/".
RECURSIVE JoinPath(_)
JoinPath(path) ==
    IF Len(path) = 1 THEN path[1]
    ELSE JoinPath(ParentOf(path)) \o <<"/">> \o path[Len(path)]

RelPath(path) == IF path = <<>> THEN <<".">> ELSE JoinPath(path)

\* The child directories of a directory: the entries of iterdir() that are
\* directories.
Children(t, path) ==
    {q \in DOMAIN t : Len(q) = Len(path) + 1 /\ SubSeq(q, 1, Len(path)) = path}

\* directory / f"{base}_{bucket_idx}"
BucketPath(path, k) == Append(path, NameOf(path) \o <<"_">> \o Decimal(k))

\* shutil.move(str(f), bucket_dir / f.name) for each entry in turn: a file of
\* that name already in the bucket directory is replaced.
RECURSIVE MoveInto(_, _)
MoveInto(content, entries) ==
    IF entries = <<>> THEN content
    ELSE MoveInto(Append(WithoutEntry(content, Head(entries).name), Head(entries)),
                  Tail(entries))

\* The tree after rename_files and bucket_files on the directory at `path`:
\* `bs` are the buckets of bucket_files over the renamed directory `dir`.
AfterBucketing(t, path, dir, bs) ==
    LET bpaths == {BucketPath(path, k) : k \in 1..Len(bs)}
    IN  [q \in DOMAIN t \cup bpaths |->
           IF q = path THEN SelectSeq(dir, LAMBDA e : ~Eligible(e.name))
           ELSE IF q \in bpaths
                THEN LET k == CHOOSE j \in 1..Len(bs) : BucketPath(path, j) = q
                     IN  MoveInto(IF q \in DOMAIN t THEN t[q] ELSE <<>>, bs[k])
                ELSE t[q]]

\* How many files already in the bucket subdirectories the moves replace.
ReplacedCount(t, path, bs) ==
    Cardinality({kn \in (1..Len(bs)) \X {e.name : e \in Range(Concat(bs))} :
                    /\ BucketPath(path, kn[1]) \in DOMAIN t
                    /\ \E e \in Range(bs[kn[1]]) : e.name = kn[2]
                    /\ \E e \in Range(t[BucketPath(path, kn[1])]) : e.name = kn[2]})

\* The files bucket_files assigned to each bucket subdirectory, with those
\* of the directory at `path` put in.
Assigned(a, path, bs) ==
    LET bpaths == {BucketPath(path, k) : k \in 1..Len(bs)}
    IN  [q \in DOMAIN a \cup bpaths |->
           IF q \in bpaths
           THEN Range(bs[CHOOSE j \in 1..Len(bs) : BucketPath(path, j) = q])
           ELSE a[q]]

\* How many files rename_files renames: those whose computed name differs.
RenamedCount(dir) ==
    LET files == SortedNames(EligibleNames(dir))
    IN  Cardinality({i \in 1..Len(files) : files[i] # NewName(i - 1, files[i])})

\* IMG_TEMPLATE.format(idx): "DSKA" and idx in at least 4 digits.
ContainerBase(idx) ==
    LET d == Decimal(idx)
    IN  <<"D", "S", "K", "A">> \o [i \in 1..(4 - Len(d)) |-> "0"] \o d

ImgName(idx) == ContainerBase(idx) \o <<".", "i", "m", "g">>
HfeName(idx) == ContainerBase(idx) \o <<".", "h", "f", "e">>

\* mapping[key].append(hfe) with a new key put first
Record_Prepend(map, key, hfe) ==
    IF \E i \in 1..Len(map) : map[i].folder = key
    THEN [i \in 1..Len(map) |->
            IF map[i].folder = key THEN [map[i] EXCEPT !.hfes = Append(@, hfe)]
            ELSE map[i]]
    ELSE <<[folder |-> key, hfes |-> <<hfe>>]>> \o map

TakeIndex_NoIncrement(c) == [idx |-> c, counter |-> c]

\* line 152: idx = counter[0]; counter[0] += 1
TakeIndex(c) == [idx |-> c, counter |-> c + 1]

\* mapping[key].append(hfe) on a defaultdict(list), kept in insertion order.
Record(map, key, hfe) ==
    IF \E i \in 1..Len(map) : map[i].folder = key
    THEN [i \in 1..Len(map) |->
            IF map[i].folder = key THEN [map[i] EXCEPT !.hfes = Append(@, hfe)]
            ELSE map[i]]
    ELSE Append(map, [folder |-> key, hfes |-> <<hfe>>])

\* A function with one more (or one replaced) key.
Put(f, k, v) == [x \in DOMAIN f \cup {k} |-> IF x = k THEN v ELSE f[x]]

NoFiles == [x \in {} |-> <<>>]

---------------------------------------------------------------------------
(* Bounds and inputs.                                                      *)

MaxNameLen == 6     \* get_shortname: the longest argument tried
MaxDirFiles == 3    \* rename_files: the files of a small directory
MaxBigDir == 1001   \* rename_files: the files of the largest directory

NameChars == {"a", "B", "7", ".", "U+00DF", "U+4E2D"}

InputNames == UNION {[1..n -> NameChars] : n \in 0..MaxNameLen}

Str(stemPart, ext) == stemPart \o ext

SmallNames ==
    { Str(<<"a">>, DotMid),
      Str(<<"A">>, <<".", "M", "I", "D">>),
      Str(<<"a", "b">>, DotMidi),
      Str(<<"b">>, <<".", "F", "i", "l">>),
      Str(<<"0", "0", "a">>, DotMid),
      Str(<<"0", "0", "A", "D", "K", "S", "O", "N">>, <<".", "M", "I", "D">>),
      Str(<<"7", "-", "7">>, DotMid),
      Str(<<"a", "b", "c", "d", "e", "f", "g", "h">>, DotMid),
      Str(<<"a">>, <<".", "t", "x", "t">>) }

\* The directories of at most MaxDirFiles files named from SmallNames, in
\* every listing order; entry i holds the file of identity i.
SmallDirs ==
    LET seqs == UNION {[1..n -> SmallNames] : n \in 0..MaxDirFiles}
        inj  == {s \in seqs : \A i, j \in 1..Len(s) : s[i] = s[j] => i = j}
    IN  {[i \in 1..Len(s) |-> [name |-> s[i], id |-> i]] : s \in inj}

\* "t0000.mid", "t0001.mid", ...: files that all have the short name TDKSON.
BigName(k) == <<"t">> \o Drop(Decimal(10000 + k), 1) \o DotMid

BigDir(n) == [i \in 1..n |-> [name |-> BigName(i - 1), id |-> i]]

BigDirs == {BigDir(n) : n \in {MAX_2DIGIT_IDX + 2, MaxBigDir}}

MaxRun == 61        \* bucket_files: the longest run of equal-sized files

RunLens == {1, 2, MaxRun - 1, MaxRun}

FileSizes == {0, 10240, 200000, 250000, 614400, 614401, 726529}

\* A run: `len` files of `size` bytes each.
Runs == [len : RunLens, size : FileSizes]

\* The sizes of the files of a directory made of one run, or of two in order.
RunSizes(runs) ==
    LET first == runs[1].len
        n     == IF Len(runs) = 1 THEN first ELSE first + runs[2].len
    IN  [p \in 1..n |-> IF p <= first THEN runs[1].size ELSE runs[2].size]

\* The names rename_files gives to the files "s.mid" at positions 0, 1, ...
RenamedNames == [k \in 0..(2 * MaxRun) |-> NewName(k, Str(<<"s">>, DotMid))]

\* A directory as rename_files leaves it, with files of the given sizes.
\* `rev` lists it backwards.
RenamedDir(sizes, rev) ==
    LET n == Len(sizes)
        e == [i \in 1..n |-> [name |-> RenamedNames[i - 1], size |-> sizes[i]]]
    IN  IF rev THEN [i \in 1..n |-> e[n + 1 - i]] ELSE e

BucketDirs ==
    LET runSeqs == {<<r>> : r \in Runs} \cup {<<r, q>> : r, q \in Runs}
    IN  {<<>>} \cup {RenamedDir(RunSizes(rs), rev) : rs \in runSeqs, rev \in BOOLEAN}

MaxRuns == 2        \* the walk: the runs of main over one root
MaxAdds == 1        \* the walk: the files added to the tree between runs

DirA == <<"a">>
DirB == <<"b">>
DirC == <<"c">>

\* A directory of the user's whose name has the form of a bucket of "a".
UserBucketDir == <<DirA, <<"a", "_", "1">>>>

FileX == [name |-> Str(<<"a">>, DotMid), size |-> 200000]
FileY == [name |-> Str(<<"B">>, <<".", "F", "I", "L">>), size |-> 614401]

\* What a source directory holds at first, in iterdir order.
FileChoices == {<<>>, <<FileX>>, <<FileY, FileX>>}

\* What UserBucketDir holds: a file with the name the rename pass gives
\* "a.mid", and a file of another name.
UserBucketFiles ==
    << [name |-> NewName(0, FileX.name), size |-> 500000],
       [name |-> Str(<<"z">>, DotMid), size |-> 500000] >>

\* File entries with their identities: where the file was first, under which
\* name, and in which round of additions (0: there from the start).
WithIds(path, files, gen) ==
    [i \in 1..Len(files) |->
       [name |-> files[i].name, size |-> files[i].size,
        id |-> [at |-> path, was |-> files[i].name, gen |-> gen]]]

TreeShapes ==
    { {<<>>, <<DirA>>, <<DirA, DirB>>},
      {<<>>, <<DirA>>, <<DirC>>},
      {<<>>, <<DirA>>, <<DirA, DirB>>, <<DirC>>},
      {<<>>, <<DirA>>, UserBucketDir} }

WalkTrees ==
    UNION { { [q \in shape |->
                 WithIds(q, IF q = UserBucketDir THEN UserBucketFiles ELSE pick[q], 0)]
              : pick \in [shape -> FileChoices] }
            : shape \in TreeShapes }

\* root.name and root.parent.name
RootNamings ==
    { [root |-> <<"r">>, parent |-> <<"p">>],
      [root |-> <<"p", "_", "2">>, parent |-> <<"p">>] }

\* is_generated_dir: the roots tried, one of them itself named Images.
ClassRoots ==
    RootNamings \cup {[root |-> IMAGES_DIRNAME, parent |-> <<"r">>]}

\* is_generated_dir: the names tried for a directory whose parent is named par.
ClassNames(par) ==
    { IMAGES_DIRNAME,
      <<"i", "m", "a", "g", "e", "s">>,
      par,
      par \o <<"_">>,
      par \o <<"_", "1">>,
      par \o <<"_", "1", "2">>,
      par \o <<"_", "0">>,
      par \o <<"_", "0", "0">>,
      par \o <<"_", "0", "0", "7">>,
      par \o <<"_", "x">>,
      par \o <<"_", "1", "x">>,
      par \o <<"_", "-", "1">>,
      par \o <<"_", "U+00B2">>,
      par \o <<"1">>,
      <<"x", "_", "1">> }

\* is_generated_dir: the directories tried under a root named rname: root,
\* its children, and the children of its child "a".
ClassPaths(rname) ==
    {<<>>} \cup {<<n>> : n \in ClassNames(rname)} \cup {<<DirA, n>> : n \in ClassNames(DirA)}

---------------------------------------------------------------------------
(* The values the variables of one specification keep under the others.    *)

IdleShort  == filename = <<>> /\ short = <<>>
IdleRename == rdir = <<>> /\ rfiles = <<>> /\ ridx = 0 /\ rmade = <<>> /\ rpc = "idle"
IdleBucket ==
    /\ blisting = <<>> /\ bdir = <<>> /\ bfiles = <<>> /\ bpos = 0
    /\ bucket_idx = 0 /\ used_clusters = 0 /\ used_bytes = 0 /\ file_count = 0
    /\ buckets = <<>> /\ bpc = "idle"
NoStats == [renamed |-> 0, moved |-> 0, produced |-> 0, replaced |-> 0, assigned |-> NoFiles]
NoManifest == [exists |-> FALSE, lines |-> <<>>, run |-> 0]
IdleClassify == dirpath = <<>> /\ generated = <<>>
IdleRun ==
    /\ fs = NoFiles /\ images = NoFiles
    /\ manifest = NoManifest /\ run = 0 /\ wpc = "off" /\ stack = <<>>
    /\ pending = <<>> /\ counter = 0 /\ mapping = <<>> /\ built = <<>>
    /\ visited = <<>> /\ stats = NoStats /\ made = {} /\ tree = "fresh"
    /\ startedOn = "fresh" /\ adds = 0
IdleWalk == rootName = <<>> /\ parentName = <<>> /\ IdleRun

---------------------------------------------------------------------------
(* SpecShort: get_shortname applied to every name of InputNames.           *)

InitShort ==
    /\ filename \in InputNames
    /\ short = <<>>
    /\ IdleRename
    /\ IdleBucket
    /\ IdleWalk
    /\ IdleClassify

CallShortname ==
    /\ short = <<>>
    /\ short' = get_shortname(filename)
    /\ UNCHANGED <<filename, renameVars, bucketVars, walkVars, classVars>>

NextShort == CallShortname

SpecShort == InitShort /\ [][NextShort]_vars

---------------------------------------------------------------------------
(* SpecClassify: is_generated_dir applied to one directory under one root. *)

InitClassify ==
    /\ \E n \in ClassRoots :
          /\ rootName = n.root
          /\ parentName = n.parent
          /\ dirpath \in ClassPaths(n.root)
    /\ generated = <<>>
    /\ IdleRun
    /\ IdleShort
    /\ IdleRename
    /\ IdleBucket

CallIsGenerated ==
    /\ generated = <<>>
    /\ generated' = <<is_generated_dir(dirpath)>>
    /\ UNCHANGED <<dirpath, shortVars, renameVars, bucketVars, walkVars>>

NextClassify == CallIsGenerated

SpecClassify == InitClassify /\ [][NextClassify]_vars

---------------------------------------------------------------------------
(* SpecRename: rename_files over one directory, one loop iteration a step. *)

InitRename ==
    /\ rdir \in SmallDirs \cup BigDirs
    /\ rfiles = <<>>
    /\ ridx = 0
    /\ rmade = <<>>
    /\ rpc = "list"
    /\ IdleShort
    /\ IdleBucket
    /\ IdleWalk
    /\ IdleClassify

\* lines 69-70
RenameList ==
    /\ rpc = "list"
    /\ rfiles' = SortedNames(EligibleNames(rdir))
    /\ rpc' = "loop"
    /\ UNCHANGED <<rdir, ridx, rmade, shortVars, bucketVars, walkVars, classVars>>

\* lines 71-80, one iteration
RenameStep ==
    /\ rpc = "loop"
    /\ ridx < Len(rfiles)
    /\ LET path     == rfiles[ridx + 1]
           new_name == NewName(ridx, path)
       IN  /\ rmade' = Append(rmade, new_name)
           /\ rdir' = RenameOne(rdir, path, ridx)
    /\ ridx' = ridx + 1
    /\ UNCHANGED <<rfiles, rpc, shortVars, bucketVars, walkVars, classVars>>

RenameReturn ==
    /\ rpc = "loop"
    /\ ridx = Len(rfiles)
    /\ rpc' = "done"
    /\ UNCHANGED <<rdir, rfiles, ridx, rmade, shortVars, bucketVars, walkVars, classVars>>

NextRename == RenameList \/ RenameStep \/ RenameReturn

SpecRename == InitRename /\ [][NextRename]_vars

---------------------------------------------------------------------------
(* SpecBucket: bucket_files over one renamed directory, one loop iteration *)
(* a step.                                                                 *)

InitBucket ==
    /\ blisting \in BucketDirs
    /\ bdir = blisting
    /\ bfiles = <<>>
    /\ bpos = 0
    /\ bucket_idx = 0
    /\ used_clusters = 0
    /\ used_bytes = 0
    /\ file_count = 0
    /\ buckets = <<>>
    /\ bpc = "list"
    /\ IdleShort
    /\ IdleRename
    /\ IdleWalk
    /\ IdleClassify

\* lines 92-95: no eligible file, no bucket
BucketListEmpty ==
    /\ bpc = "list"
    /\ EligibleNames(bdir) = <<>>
    /\ bpc' = "done"
    /\ UNCHANGED <<blisting, bdir, bfiles, bpos, bucket_idx, used_clusters, used_bytes,
                   file_count, buckets, shortVars, renameVars, walkVars, classVars>>

\* lines 92-102: the sorted snapshot, and bucket 1 opened
BucketList ==
    /\ bpc = "list"
    /\ EligibleNames(bdir) # <<>>
    /\ bfiles' = SortedNames(EligibleNames(bdir))
    /\ bucket_idx' = FirstBucket.bucket_idx
    /\ used_clusters' = FirstBucket.used_clusters
    /\ used_bytes' = FirstBucket.used_bytes
    /\ file_count' = FirstBucket.file_count
    /\ buckets' = FirstBucket.buckets
    /\ bpc' = "loop"
    /\ UNCHANGED <<blisting, bdir, bpos, shortVars, renameVars, walkVars, classVars>>

\* lines 104-124, one iteration
BucketStep ==
    /\ bpc = "loop"
    /\ bpos < Len(bfiles)
    /\ LET f  == EntryNamed(bdir, bfiles[bpos + 1])
           st == BucketAdd([bucket_idx |-> bucket_idx, used_clusters |-> used_clusters,
                            used_bytes |-> used_bytes, file_count |-> file_count,
                            buckets |-> buckets], f)
       IN  /\ bucket_idx' = st.bucket_idx
           /\ used_clusters' = st.used_clusters
           /\ used_bytes' = st.used_bytes
           /\ file_count' = st.file_count
           /\ buckets' = st.buckets
           /\ bdir' = WithoutEntry(bdir, f.name)
    /\ bpos' = bpos + 1
    /\ UNCHANGED <<blisting, bfiles, bpc, shortVars, renameVars, walkVars, classVars>>

\* line 125
BucketReturn ==
    /\ bpc = "loop"
    /\ bpos = Len(bfiles)
    /\ bpc' = "done"
    /\ UNCHANGED <<blisting, bdir, bfiles, bpos, bucket_idx, used_clusters, used_bytes,
                   file_count, buckets, shortVars, renameVars, walkVars, classVars>>

NextBucket == BucketListEmpty \/ BucketList \/ BucketStep \/ BucketReturn

SpecBucket == InitBucket /\ [][NextBucket]_vars

---------------------------------------------------------------------------
(* Spec: runs of main over one root. process_directory is a stack of       *)
(* frames; one step classifies a directory, renames and buckets it, builds *)
(* one container, lists the children, enters one child, or returns.        *)

Init ==
    /\ \E n \in RootNamings : rootName = n.root /\ parentName = n.parent
    /\ fs \in WalkTrees
    /\ images = NoFiles
    /\ manifest = NoManifest
    /\ run = 0
    /\ wpc = "idle"
    /\ stack = <<>>
    /\ pending = <<>>
    /\ counter = 0
    /\ mapping = <<>>
    /\ built = <<>>
    /\ visited = <<>>
    /\ stats = NoStats
    /\ made = {}
    /\ tree = "fresh"
    /\ startedOn = "fresh"
    /\ adds = 0
    /\ IdleShort
    /\ IdleRename
    /\ IdleBucket
    /\ IdleClassify

Top == stack[Len(stack)]

\* The stack after the innermost call returns, and where control goes.
Popped == SubSeq(stack, 1, Len(stack) - 1)
AfterReturn == IF Len(stack) = 1 THEN "write" ELSE "children"

\* main, lines 172-181: a run starts (the first, or one after a completed run).
StartRun ==
    /\ wpc = "idle"
    /\ run < MaxRuns
    /\ run' = run + 1
    /\ fs' = IF <<IMAGES_DIRNAME>> \in DOMAIN fs THEN fs ELSE Put(fs, <<IMAGES_DIRNAME>>, <<>>)
    /\ counter' = 0
    /\ mapping' = <<>>
    /\ stack' = <<[dir |-> <<>>, todo |-> {}]>>
    /\ pending' = <<>>
    /\ wpc' = "visit"
    /\ built' = <<>>
    /\ visited' = <<>>
    /\ stats' = NoStats
    /\ startedOn' = tree
    /\ tree' = "dirty"
    /\ UNCHANGED <<rootName, parentName, images, manifest, made, adds,
                   shortVars, renameVars, bucketVars, classVars>>

\* lines 147-148 for root: it is a generated directory and is left alone
VisitSkip ==
    /\ wpc = "visit"
    /\ is_generated_dir(Top.dir)
    /\ stack' = Popped
    /\ wpc' = AfterReturn
    /\ UNCHANGED <<rootName, parentName, fs, images, manifest, run, pending, counter,
                   mapping, built, visited, stats, made, tree, startedOn, adds,
                   shortVars, renameVars, bucketVars, classVars>>

\* lines 150-151: rename_files, then bucket_files (each computed once: the
\* one element of a set)
VisitProcess ==
    /\ wpc = "visit"
    /\ ~is_generated_dir(Top.dir)
    /\ \E renamed \in {rename_files(fs[Top.dir])} : \E bs \in {bucket_files(renamed)} :
       LET path == Top.dir
       IN  /\ fs' = AfterBucketing(fs, path, renamed, bs)
           /\ pending' = [k \in 1..Len(bs) |-> BucketPath(path, k)]
           /\ made' = made \cup {BucketPath(path, k) : k \in 1..Len(bs)}
           /\ stats' = [renamed  |-> stats.renamed + RenamedCount(fs[path]),
                        moved    |-> stats.moved + Len(Concat(bs)),
                        produced |-> stats.produced + Len(bs),
                        replaced |-> stats.replaced + ReplacedCount(fs, path, bs),
                        assigned |-> Assigned(stats.assigned, path, bs)]
    /\ visited' = Append(visited, Top.dir)
    /\ wpc' = "build"
    /\ UNCHANGED <<rootName, parentName, images, manifest, run, stack, counter, mapping,
                   built, tree, startedOn, adds, shortVars, renameVars, bucketVars, classVars>>

\* What build_image puts in a container: every file of the bucket directory
\* (whole: every mcopy was done).
Built(bucket, whole) ==
    [run |-> run, src |-> Top.dir, bucket |-> bucket, files |-> Range(fs[bucket]),
     whole |-> whole]

\* lines 152-159 for the next bucket, the tools succeeding
BuildOk ==
    /\ wpc = "build"
    /\ pending # <<>>
    /\ LET bucket == Head(pending)
           t      == TakeIndex(counter)
       IN  /\ counter' = t.counter
           /\ images' = Put(Put(images, ImgName(t.idx), Built(bucket, TRUE)),
                            HfeName(t.idx), Built(bucket, TRUE))
           /\ mapping' = Record(mapping, RelPath(Top.dir), HfeName(t.idx))
           /\ built' = Append(built, [idx |-> t.idx, dir |-> Top.dir, bucket |-> bucket,
                                      hfe |-> HfeName(t.idx)])
    /\ pending' = Tail(pending)
    /\ UNCHANGED <<rootName, parentName, fs, manifest, run, wpc, stack, visited, stats,
                   made, tree, startedOn, adds, shortVars, renameVars, bucketVars, classVars>>

\* lines 152-157: mformat or mcopy exits non-zero; check=True raises and the
\* process ends. The image file may have been written in part.
BuildImageFail ==
    /\ wpc = "build"
    /\ pending # <<>>
    /\ LET t == TakeIndex(counter)
       IN  /\ counter' = t.counter
           /\ \/ images' = images
              \/ images' = Put(images, ImgName(t.idx), Built(Head(pending), FALSE))
    /\ wpc' = "failed"
    /\ stack' = <<>>
    /\ pending' = <<>>
    /\ UNCHANGED <<rootName, parentName, fs, manifest, run, mapping, built, visited,
                   stats, made, tree, startedOn, adds, shortVars, renameVars, bucketVars, classVars>>

\* gw convert exits non-zero, the error is swallowed and the loop goes on
ConvertFail_Swallowed ==
    /\ wpc = "build"
    /\ pending # <<>>
    /\ LET t == TakeIndex(counter)
       IN  /\ counter' = t.counter
           /\ images' = Put(images, ImgName(t.idx), Built(Head(pending), TRUE))
    /\ pending' = Tail(pending)
    /\ UNCHANGED <<rootName, parentName, fs, manifest, run, wpc, stack, mapping, built,
                   visited, stats, made, tree, startedOn, adds,
                   shortVars, renameVars, bucketVars, classVars>>

\* lines 152-158: the image is built, gw convert exits non-zero; check=True
\* raises and the process ends
ConvertFail ==
    /\ wpc = "build"
    /\ pending # <<>>
    /\ LET t == TakeIndex(counter)
       IN  /\ counter' = t.counter
           /\ images' = Put(images, ImgName(t.idx), Built(Head(pending), TRUE))
    /\ wpc' = "failed"
    /\ stack' = <<>>
    /\ pending' = <<>>
    /\ UNCHANGED <<rootName, parentName, fs, manifest, run, mapping, built, visited,
                   stats, made, tree, startedOn, adds, shortVars, renameVars, bucketVars, classVars>>

\* line 161: the children are listed once every bucket is built
ListChildren ==
    /\ wpc = "build"
    /\ pending = <<>>
    /\ stack' = [stack EXCEPT ![Len(stack)].todo = Children(fs, Top.dir)]
    /\ wpc' = "children"
    /\ UNCHANGED <<rootName, parentName, fs, images, manifest, run, pending, counter,
                   mapping, built, visited, stats, made, tree, startedOn, adds,
                   shortVars, renameVars, bucketVars, classVars>>

\* lines 161-163 and 147-148: the next child, in whatever order iterdir()
\* yields them, is a generated directory: the call returns at once
SkipChild ==
    /\ wpc = "children"
    /\ \E child \in Top.todo :
          /\ is_generated_dir(child)
          /\ stack' = [stack EXCEPT ![Len(stack)].todo = @ \ {child}]
    /\ UNCHANGED <<rootName, parentName, fs, images, manifest, run, wpc, pending, counter,
                   mapping, built, visited, stats, made, tree, startedOn, adds,
                   shortVars, renameVars, bucketVars, classVars>>

\* lines 161-163: the next child is a source directory: the call goes on
EnterChild ==
    /\ wpc = "children"
    /\ \E child \in Top.todo :
          /\ ~is_generated_dir(child)
          /\ stack' = Append([stack EXCEPT ![Len(stack)].todo = @ \ {child}],
                             [dir |-> child, todo |-> {}])
    /\ wpc' = "visit"
    /\ UNCHANGED <<rootName, parentName, fs, images, manifest, run, pending, counter,
                   mapping, built, visited, stats, made, tree, startedOn, adds,
                   shortVars, renameVars, bucketVars, classVars>>

\* process_directory returns: no child is left
Return ==
    /\ wpc = "children"
    /\ Top.todo = {}
    /\ stack' = Popped
    /\ wpc' = AfterReturn
    /\ UNCHANGED <<rootName, parentName, fs, images, manifest, run, pending, counter,
                   mapping, built, visited, stats, made, tree, startedOn, adds,
                   shortVars, renameVars, bucketVars, classVars>>

\* main, lines 183-186: the manifest is written, the run is complete
WriteManifest ==
    /\ wpc = "write"
    /\ manifest' = [exists |-> TRUE, lines |-> mapping, run |-> run]
    /\ wpc' = "idle"
    /\ tree' = "left"
    /\ UNCHANGED <<rootName, parentName, fs, images, run, stack, pending, counter,
                   mapping, built, visited, stats, made, startedOn, adds,
                   shortVars, renameVars, bucketVars, classVars>>

\* Between runs the user puts one more eligible file into a source directory.
AddFile ==
    /\ wpc = "idle"
    /\ run >= 1
    /\ adds < MaxAdds
    /\ \E path \in DOMAIN fs :
          /\ path \in {<<>>, <<DirA>>}
          /\ \A i \in 1..Len(fs[path]) : fs[path][i].name # FileX.name
          /\ fs' = [fs EXCEPT ![path] = @ \o WithIds(path, <<FileX>>, adds + 1)]
    /\ adds' = adds + 1
    /\ tree' = "dirty"
    /\ UNCHANGED <<rootName, parentName, images, manifest, run, wpc, stack, pending,
                   counter, mapping, built, visited, stats, made, startedOn,
                   shortVars, renameVars, bucketVars, classVars>>

Next ==
    \/ StartRun
    \/ VisitSkip
    \/ VisitProcess
    \/ BuildOk
    \/ BuildImageFail
    \/ ConvertFail
    \/ ListChildren
    \/ SkipChild
    \/ EnterChild
    \/ Return
    \/ WriteManifest
    \/ AddFile

Spec == Init /\ [][Next]_vars

\* The steps of a run once main has started it, but VisitProcess: the
\* process is sequential and every call in it returns or raises, so a run
\* that can take a step takes one.
RunStep ==
    \/ VisitSkip
    \/ BuildOk
    \/ BuildImageFail
    \/ ConvertFail
    \/ ListChildren
    \/ SkipChild
    \/ EnterChild
    \/ Return
    \/ WriteManifest

\* The trees on which termination is checked: nested source directories,
\* and a user's directory named like a bucket.
FairShapes ==
    { {<<>>, <<DirA>>, <<DirA, DirB>>},
      {<<>>, <<DirA>>, UserBucketDir} }

InitFair == Init /\ DOMAIN fs \in FairShapes

\* VisitProcess can be taken: a source directory is about to be processed.
VisitProcessEnabled == wpc = "visit" /\ ~is_generated_dir(Top.dir)

\* Weak fairness of VisitProcess, written with its enabling condition: the
\* step ends the condition, so the condition does not hold forever.
FairVisit == []<>(~VisitProcessEnabled)

FairSpec == InitFair /\ [][Next]_vars /\ WF_vars(RunStep) /\ FairVisit

---------------------------------------------------------------------------
(* Claims about the names (C8, C9, C10).                                   *)

\* The number of leading decimal digits of a name.
DigitPrefixLen(s) ==
    Cardinality({k \in 1..Len(s) : \A j \in 1..k : s[j] \in Range(DigitChars)})

\* C8: in one rename pass over one directory, the final names computed for
\* any two distinct eligible files are different.
C8_NewNamesDistinct == Cardinality(Range(rmade)) = Len(rmade)

\* C8 witness: a finished pass over more than 100 files whose short names are
\* all equal, so that only the sequence index tells the new names apart.
C8_Witness ==
    /\ rpc = "done"
    /\ Len(rmade) > MAX_2DIGIT_IDX + 1
    /\ \A i \in 1..Len(rfiles) : get_shortname(rfiles[i]) = get_shortname(rfiles[1])

\* C9: get_shortname returns exactly 6 uppercase alphabetic characters for
\* every input name.
C9_ShortnameSixUppercaseLetters ==
    short # <<>> =>
        /\ Len(short) = SHORT_LEN
        /\ \A i \in 1..Len(short) : IsAlpha(short[i]) /\ IsUpper(short[i])

\* C10: every name the rename pass produces keeps the 8.3 form: 8 characters
\* before the extension, which are the digits of the sequence index followed
\* by a short name of 6 characters (index below 100) or 5 (index 100 and up),
\* then .FIL for the .fil family and .MID otherwise.
C10_NamesAreEightDotThree ==
    \A i \in 1..Len(rmade) :
        LET name   == rmade[i]
            base   == stem(name)
            digits == DigitPrefixLen(base)
        IN  /\ Len(base) = 8
            /\ Take(base, digits) = Decimal(i - 1) \/ Take(base, digits) = <<"0">> \o Decimal(i - 1)
            /\ Len(base) - digits = (IF i - 1 < 100 THEN 6 ELSE 5)
            /\ suffix(name) = (IF lower(suffix(rfiles[i])) = DotFil
                               THEN <<".", "F", "I", "L">> ELSE <<".", "M", "I", "D">>)

---------------------------------------------------------------------------
(* Claims about the bucketer (C1, C2, C3, C4).                             *)

\* The byte total of a bucket's files.
RECURSIVE BytesOf(_)
BytesOf(b) == IF b = <<>> THEN 0 ELSE Head(b).size + BytesOf(Tail(b))

\* The cluster total of a bucket's files.
RECURSIVE ClustersOf(_)
ClustersOf(b) == IF b = <<>> THEN 0 ELSE rounded_clusters(Head(b).size) + ClustersOf(Tail(b))

\* C1: every bucket is within the byte, cluster and file-count ceilings; a
\* ceiling is exceeded only by a bucket of exactly one file whose own cost
\* exceeds that ceiling.
C1_BucketsWithinCeilings ==
    \A k \in 1..Len(buckets) :
        LET b == buckets[k]
        IN  /\ \/ BytesOf(b) <= MAX_PAYLOAD_BYTES
               \/ Len(b) = 1 /\ b[1].size > MAX_PAYLOAD_BYTES
            /\ \/ ClustersOf(b) <= MAX_CLUSTERS
               \/ Len(b) = 1 /\ rounded_clusters(b[1].size) > MAX_CLUSTERS
            /\ Len(b) <= MAX_FILES_PER_DISK

\* C1 witness: a finished call that filled one bucket to the file-count
\* ceiling, one to the byte ceiling exactly, and put an oversized file alone.
C1_Witness ==
    /\ bpc = "done"
    /\ \E k \in 1..Len(buckets) : Len(buckets[k]) = MAX_FILES_PER_DISK
    /\ \E k \in 1..Len(buckets) :
          Len(buckets[k]) > 1 /\ BytesOf(buckets[k]) = MAX_PAYLOAD_BYTES
    /\ \E k \in 1..Len(buckets) :
          Len(buckets[k]) = 1 /\ buckets[k][1].size > MAX_PAYLOAD_BYTES

\* C2: when bucket_files returns, the buckets' file sequences concatenated in
\* production order hold every eligible file of the directory exactly once,
\* in case-insensitive name order.
C2_ConcatIsSortedListing ==
    bpc = "done" =>
        LET all      == Concat(buckets)
            eligible == {blisting[i] : i \in {j \in 1..Len(blisting) : Eligible(blisting[j].name)}}
        IN  /\ Range(all) = eligible
            /\ Len(all) = Cardinality(eligible)
            /\ \A i \in 1..(Len(all) - 1) :
                  ~StrLess(SortKey(all[i + 1].name), SortKey(all[i].name))

\* C2 witness: a finished call over a directory listed out of name order,
\* whose files went to several buckets.
C2_Witness ==
    /\ bpc = "done"
    /\ Len(buckets) >= 2
    /\ Len(blisting) >= 3
    /\ StrLess(SortKey(blisting[2].name), SortKey(blisting[1].name))

\* The byte sizes of `files`, in sorted order.
SortedSizes == [i \in 1..Len(bfiles) |-> EntryNamed(blisting, bfiles[i]).size]

\* C3: greedy first-fit against one open bucket. Each file starts a new
\* bucket exactly when adding it to the open bucket's contents would exceed
\* the cluster, byte or file-count ceiling, and joins the open bucket
\* otherwise; files of 200000, 200000 and 250000 bytes give two buckets, the
\* first with files 1 and 2 and the second with file 3.
C3_GreedyFirstFit ==
    /\ [][bpos' = bpos + 1 =>
            LET f     == EntryNamed(bdir, bfiles[bpos + 1])
                open  == buckets[Len(buckets)]
                would == \/ ClustersOf(open) + rounded_clusters(f.size) > MAX_CLUSTERS
                         \/ BytesOf(open) + f.size > MAX_PAYLOAD_BYTES
                         \/ Len(open) + 1 > MAX_FILES_PER_DISK
            IN  IF would THEN buckets' = Append(buckets, <<f>>)
                ELSE buckets' = [buckets EXCEPT ![Len(buckets)] = Append(@, f)]]_vars
    /\ [](bpc = "done" /\ SortedSizes = <<200000, 200000, 250000>> =>
            /\ Len(buckets) = 2
            /\ [i \in 1..2 |-> buckets[1][i].name] = SubSeq(bfiles, 1, 2)
            /\ [i \in 1..1 |-> buckets[2][i].name] = SubSeq(bfiles, 3, 3))

\* C3 witness: the call over the files of 200000, 200000 and 250000 bytes has
\* returned.
C3_Witness ==
    /\ bpc = "done"
    /\ SortedSizes = <<200000, 200000, 250000>>
    /\ Len(buckets) = 2

\* C4: a fresh bucket never rejects its first file, so every bucket that
\* bucket_files returns holds at least one file (and a directory without
\* eligible files gives no bucket).
C4_NoEmptyBucket ==
    bpc = "done" =>
        /\ \A k \in 1..Len(buckets) : Len(buckets[k]) >= 1
        /\ (EligibleNames(blisting) = <<>> => buckets = <<>>)

---------------------------------------------------------------------------
(* Claims about the walk (C5, C6, C7).                                     *)

\* Whether a directory is, or lies under, one of the given directories.
Under(path, tops) == \E n \in 0..Len(path) : SubSeq(path, 1, n) \in tops

\* C5: a run over a root left by a completed run, with no outside change,
\* never processes the Images directory or a bucket subdirectory (or anything
\* below one), and so renames no file, moves no file, produces no bucket and
\* builds no container.
C5_RerunDoesNothing ==
    startedOn = "left" =>
        /\ \A i \in 1..Len(visited) : ~Under(visited[i], made \cup {<<IMAGES_DIRNAME>>})
        /\ stats = NoStats
        /\ built = <<>>
        /\ wpc # "failed"

\* C5 witness: a second run has completed over the root a first run left,
\* which holds bucket subdirectories, and went through two source directories.
C5_Witness ==
    /\ startedOn = "left"
    /\ wpc = "idle"
    /\ run = 2
    /\ made # {}
    /\ Len(visited) >= 2

\* The names in Images of the converted containers.
HfeNames == {n \in DOMAIN images : suffix(n) = <<".", "h", "f", "e">>}

\* C6: at the end of a completed run every container identifier in the Images
\* directory is in exactly one manifest line, the line of the directory whose
\* bucket produced it, and each line is in production order.
C6_ManifestComplete ==
    (wpc = "idle" /\ run >= 1) =>
        /\ \A n \in HfeNames :
              /\ Cardinality({ij \in (1..Len(manifest.lines)) \X (1..Cardinality(HfeNames)) :
                                /\ ij[2] <= Len(manifest.lines[ij[1]].hfes)
                                /\ manifest.lines[ij[1]].hfes[ij[2]] = n}) = 1
              /\ \E i \in 1..Len(manifest.lines) :
                    /\ manifest.lines[i].folder = RelPath(images[n].src)
                    /\ n \in Range(manifest.lines[i].hfes)
        /\ \A i \in 1..Len(manifest.lines) :
              \A j, k \in 1..Len(manifest.lines[i].hfes) :
                 j < k => \E a, b \in 1..Len(built) :
                             /\ a < b
                             /\ built[a].hfe = manifest.lines[i].hfes[j]
                             /\ built[b].hfe = manifest.lines[i].hfes[k]

\* C7: within one run the k-th bucket built (from 0, in traversal order) gets
\* identifier k, no two buckets get the same container name, the counter
\* never decreases, and at the end of the run the counter is the number of
\* buckets bucket_files produced in the run.
C7_GlobalSequence ==
    /\ [](\A k \in 1..Len(built) : built[k].idx = k - 1)
    /\ [](\A j, k \in 1..Len(built) : j # k => built[j].hfe # built[k].hfe)
    /\ [](wpc = "idle" /\ run >= 1 => counter = stats.produced)
    /\ [][run' = run => counter' >= counter]_vars

\* C7 witness: a completed run that built at least three containers, from
\* more than one directory.
C7_Witness ==
    /\ wpc = "idle"
    /\ Len(built) >= 3
    /\ \E j, k \in 1..Len(built) : built[j].dir # built[k].dir

---------------------------------------------------------------------------
(* Claims about the classification of directories (C11).                   *)

\* A decimal numeral of a positive integer: decimal digits, not all "0".
IsPositiveInt(s) ==
    /\ s # <<>>
    /\ \A i \in 1..Len(s) : s[i] \in Range(DigitChars)
    /\ \E i \in 1..Len(s) : s[i] # "0"

\* C11: is_generated_dir says generated exactly when the directory is the
\* Images directory directly under root, or its name is its parent's name,
\* then "_", then a positive integer; every other directory is a source
\* (a suffix that is 0, is empty or is not a number; an Images directory
\* elsewhere).
C11_GeneratedExactly ==
    generated # <<>> =>
        (generated[1] <=>
            \/ dirpath = <<IMAGES_DIRNAME>>
            \/ LET name == NameOf(dirpath)
                   par  == ParentNameOf(dirpath)
               IN  /\ StartsWith(name, par \o <<"_">>)
                   /\ IsPositiveInt(Drop(name, Len(par) + 1)))

---------------------------------------------------------------------------
(* Claims about a failing external tool (C12).                             *)

\* The source directories of the tree that this run has not processed.
Unvisited ==
    {q \in DOMAIN fs : /\ ~Under(q, made \cup {<<IMAGES_DIRNAME>>})
                       /\ ~is_generated_dir(q)
                       /\ \A i \in 1..Len(visited) : visited[i] # q}

\* C12: a failure of the container builder or of the converter on a bucket
\* (an index was handed out and no container was recorded for it) is fatal:
\* from then on no bucket is built, no directory is renamed, bucketed or
\* entered, the failed container is in no manifest record, and this run does
\* not write the manifest file.
C12_FailureIsFatal ==
    /\ [](counter > Len(built) =>
            /\ wpc = "failed"
            /\ manifest.run # run
            /\ \A i \in 1..Len(mapping) :
                  \A j \in 1..Len(mapping[i].hfes) : mapping[i].hfes[j] # HfeName(counter - 1)
            /\ \A n \in HfeNames : images[n].run = run => n # HfeName(counter - 1))
    /\ [][counter > Len(built) =>
            UNCHANGED <<fs, images, manifest, mapping, built, visited, stats, counter, run>>]_vars

\* C12 witness: a run has failed after it built a container and moved files
\* into bucket subdirectories, with a later bucket left unbuilt and a source
\* directory left unprocessed.
C12_Witness ==
    /\ wpc = "failed"
    /\ counter > Len(built)
    /\ Len(built) >= 1
    /\ stats.moved >= 2
    /\ stats.produced > counter
    /\ Unvisited # {}

---------------------------------------------------------------------------
(* Claims about the order of the walk (C13).                               *)

\* Whether directory p is a proper ancestor of directory q.
Above(p, q) == Len(p) < Len(q) /\ SubSeq(q, 1, Len(p)) = p

\* The directories of the containers built, each once, in the order of
\* their first container.
RECURSIVE FirstDirs(_)
FirstDirs(b) ==
    IF b = <<>> THEN <<>>
    ELSE LET before == FirstDirs(SubSeq(b, 1, Len(b) - 1))
             d      == b[Len(b)].dir
         IN  IF d \in Range(before) THEN before ELSE Append(before, d)

\* C13: the walk is depth-first pre-order. A directory is processed after
\* its parent, once every bucket of the directories before it is built and
\* recorded, and the directories under it come next, before any other; the
\* container identifiers of a directory are consecutive and lower than those
\* of its descendants; the manifest of a completed run has one line per
\* directory that produced a container, in the order of their first container.
C13_DepthFirstPreOrder ==
    /\ [][Len(visited') > Len(visited) =>
            LET d == visited'[Len(visited')]
            IN  /\ pending = <<>>
                /\ d = <<>> \/ \E i \in 1..Len(visited) : visited[i] = ParentOf(d)
                /\ \A k \in 1..Len(built) :
                      \E i \in 1..Len(mapping) :
                         /\ mapping[i].folder = RelPath(built[k].dir)
                         /\ built[k].hfe \in Range(mapping[i].hfes)]_vars
    /\ [](\A i, j, k \in 1..Len(visited) :
            (i < j /\ j < k /\ Above(visited[i], visited[k])) => Above(visited[i], visited[j]))
    /\ [](\A j, k \in 1..Len(built) :
            /\ (j < k /\ built[j].dir = built[k].dir) =>
                  /\ built[k].idx - built[j].idx = k - j
                  /\ \A i \in j..k : built[i].dir = built[j].dir
            /\ Above(built[j].dir, built[k].dir) => built[j].idx < built[k].idx)
    /\ []((wpc = "idle" /\ manifest.run = run /\ run >= 1) =>
            LET dirs == FirstDirs(built)
            IN  /\ Len(manifest.lines) = Len(dirs)
                /\ \A i \in 1..Len(dirs) :
                      /\ manifest.lines[i].folder = RelPath(dirs[i])
                      /\ manifest.lines[i].hfes # <<>>)

\* C13 witness: a completed run that went down to a/b before c and built
\* containers from three directories, two of them from one directory.
C13_Witness ==
    /\ wpc = "idle"
    /\ manifest.run = run
    /\ Len(visited) = 4
    /\ visited[3] = <<DirA, DirB>>
    /\ Len(FirstDirs(built)) >= 3
    /\ Len(built) > Len(FirstDirs(built))

---------------------------------------------------------------------------
(* Claims about the rename pass and the order of the files (C14).          *)

\* C14: after the rename pass over a directory of any number of eligible
\* files, the case-insensitive sort of the new names (the one bucket_files
\* does) lists them in increasing sequence-index order.
C14_RenameKeepsOrder ==
    rpc = "done" => SortedNames(rmade) = rmade

---------------------------------------------------------------------------
(* Claims about the rename pass and the files it keeps (C16).              *)

\* C16: the rename pass loses no file. No rename targets a name that
\* another file of the directory has at that moment, so after the pass the
\* directory holds as many eligible files as before it, each file of the
\* snapshot under the one new name computed for it.
C16_RenameLosesNoFile ==
    /\ [][ridx' = ridx + 1 =>
            LET path     == rfiles[ridx + 1]
                new_name == NewName(ridx, path)
            IN  path # new_name => \A i \in 1..Len(rdir) : rdir[i].name # new_name]_vars
    /\ [](rpc = "done" =>
            /\ Len(EligibleNames(rdir)) = Len(rfiles)
            /\ Range(EligibleNames(rdir)) = Range(rmade))

---------------------------------------------------------------------------
(* Claims about the termination of the walk (C15).                         *)

\* C15: on a finite tree every run ends (the manifest written, or a tool
\* failed), a run processes no directory twice, and it never processes a
\* bucket subdirectory that bucket_files has made, or anything below one,
\* although the subdirectories are among the children listed.
C15_WalkTerminates ==
    /\ [](\A i, j \in 1..Len(visited) : visited[i] = visited[j] => i = j)
    /\ [](\A i \in 1..Len(visited) : ~Under(visited[i], made))
    /\ (wpc \in {"visit", "build", "children", "write"}) ~> (wpc \in {"idle", "failed"})

\* C15 witness: the children of a processed directory are listed, a bucket
\* subdirectory made in this run is one of them, and a source directory too.
C15_Witness ==
    /\ wpc = "children"
    /\ run = 1
    /\ \E q \in Top.todo : q \in made
    /\ \E q \in Top.todo : ~is_generated_dir(q)

---------------------------------------------------------------------------
(* Claims about the contents of a container (C17).                         *)

\* The byte total of a set of files.
RECURSIVE BytesOfSet(_)
BytesOfSet(S) ==
    IF S = {} THEN 0
    ELSE LET e == CHOOSE x \in S : TRUE IN e.size + BytesOfSet(S \ {e})

\* The containers this run has built to the end.
BuiltNow == {n \in DOMAIN images : images[n].run = run /\ images[n].whole}

\* C17: the files copied into a container are exactly the files bucket_files
\* assigned to its bucket in this run, also when the bucket subdirectory was
\* there before with files in it: the container is within the byte and
\* file-count ceilings (but for one oversized file alone), and no file that
\* was in the subdirectory is replaced by a moved file.
C17_ContainerIsTheBucket ==
    /\ \A n \in BuiltNow :
          LET files == images[n].files
          IN  /\ files = stats.assigned[images[n].bucket]
              /\ Cardinality(files) <= MAX_FILES_PER_DISK
              /\ \/ BytesOfSet(files) <= MAX_PAYLOAD_BYTES
                 \/ Cardinality(files) = 1
    /\ stats.replaced = 0

---------------------------------------------------------------------------
(* Claims about runs after the first (C18) and about root (C19).           *)

\* C18: after any sequence of completed runs over one root, every converted
\* container in Images is listed in the manifest file, and no run replaces
\* a container file that an earlier run wrote.
C18_RunsKeepEarlierOutput ==
    /\ []((wpc = "idle" /\ run >= 1) =>
            \A n \in HfeNames :
               \E i \in 1..Len(manifest.lines) : n \in Range(manifest.lines[i].hfes))
    /\ [][\A n \in DOMAIN images :
            images[n].run < run' => (n \in DOMAIN images' /\ images'[n] = images[n])]_vars

\* C19: a run always processes root itself, whatever root and its parent
\* are named: the first directory renamed and bucketed is root, and its
\* children are listed.
C19_RootIsProcessed ==
    (run >= 1 /\ wpc # "visit") => (visited # <<>> /\ visited[1] = <<>>)

---------------------------------------------------------------------------
(* Claims about the cluster ceiling (C20).                                 *)

\* C20: with 512-byte blocks, 1419 clusters, 614400 bytes and 60 files, a
\* file that the byte ceiling and the file-count ceiling let into the open
\* bucket is let in by the cluster ceiling too: the cluster test alone
\* never opens a bucket.
C20_ClusterCeilingImplied ==
    [][bpos' = bpos + 1 =>
         LET size == EntryNamed(bdir, bfiles[bpos + 1]).size
         IN  /\ (used_bytes + size <= MAX_PAYLOAD_BYTES /\ file_count + 1 <= MAX_FILES_PER_DISK)
                   => used_clusters + rounded_clusters(size) <= MAX_CLUSTERS
             /\ bucket_idx' # bucket_idx =>
                   \/ used_bytes + size > MAX_PAYLOAD_BYTES
                   \/ file_count + 1 > MAX_FILES_PER_DISK]_vars

\* C20 witness: a finished call with a bucket filled to both the byte and
\* the file-count ceiling by one file of 614400 bytes and zero-byte files,
\* each costing a cluster: the most clusters the two ceilings allow.
C20_Witness ==
    /\ bpc = "done"
    /\ \E k \in 1..Len(buckets) :
          /\ Len(buckets[k]) = MAX_FILES_PER_DISK
          /\ BytesOf(buckets[k]) = MAX_PAYLOAD_BYTES
          /\ \E i \in 1..Len(buckets[k]) : buckets[k][i].size = 0
          /\ ClustersOf(buckets[k]) = (MAX_PAYLOAD_BYTES \div SECTOR_SIZE) + MAX_FILES_PER_DISK - 1

===========================================================================
